---- MODULE Spec2Model ----
(***************************************************************************)
(* A model of the two OrderBook classes of the repository:                 *)
(*   src/OrderBook.cpp           the book that builds each Order directly  *)
(*   src/OrderBookOptimized.cpp  the book that takes its Orders from the   *)
(*                               OrderPool                                 *)
(* Both books receive the same sequence of add_limit / add_market / cancel *)
(* calls.  Every operation is translated statement by statement.  Where a  *)
(* statement has undefined behaviour (a function that flows off its end,   *)
(* *begin() of an empty map, front() of an empty vector, erase() through a *)
(* dangling iterator) the operation yields a SET of outcomes.              *)
(***************************************************************************)
EXTENDS Integers, Sequences, FiniteSets, TLC

\* ---- bounds of the model ------------------------------------------------
MaxPrice == 2
MaxQty == 2
MaxId == 3
NumCallers == 3
MaxCalls == 2

\* ---- program constants --------------------------------------------------
defaultNumOrders == 100

Sides == {"BUY", "SELL"}
Prices == 1..MaxPrice
Qtys == 0..MaxQty

\* ---- std::map<Price, Level>: a function whose domain is the key set -----
EmptyMap == [k \in {} |-> <<>>]

Min(S) == CHOOSE x \in S : \A y \in S : x <= y
Max(S) == CHOOSE x \in S : \A y \in S : x >= y

\* begin() of a map ordered the other way round
beginAsksLast(m) == Max(DOMAIN m)

\* map.begin()->first under std::less (asks_) and std::greater (bids_)
beginAsks(m) == Min(DOMAIN m)
beginBids(m) == Max(DOMAIN m)

\* map[k]: the mapped value, value-initialised when the key is absent
At(m, k, dflt) == IF k \in DOMAIN m THEN m[k] ELSE dflt
\* the map after `map[k] = v`
Put(m, k, v) == [x \in (DOMAIN m) \cup {k} |-> IF x = k THEN v ELSE m[x]]
\* map.insert({k, v}): keeps an existing entry
Insert(m, k, v) == IF k \in DOMAIN m THEN m ELSE Put(m, k, v)
\* map.erase(k)
Erase(m, k) == [x \in (DOMAIN m) \ {k} |-> m[x]]

\* ---- Order, TradeInfo, Trade --------------------------------------------
Order(side, id, type, price, qty) ==
    [side_ |-> side, id_ |-> id, type_ |-> type, price_ |-> price,
     initialQty_ |-> qty, remainingQty_ |-> qty]

TradeInfo(id, price, qty) == [id_ |-> id, price_ |-> price, qty_ |-> qty]

Trade(buy, sell) == [buy_ |-> buy, sell_ |-> sell]

\* a fill that takes the whole incoming quantity, whatever the order holds
qminTakesAll(a, b) == a

\* std::min
qmin(a, b) == IF a < b THEN a ELSE b

\* Order::isFilled
isFilled(o) == o.remainingQty_ = 0

\* Order::fill: the order after the fill; the caller tests fillThrows first
fillThrows(o, exec) == exec > o.remainingQty_
fill(o, exec) == [o EXCEPT !.remainingQty_ = @ - exec]

\* ---- what an operation hands back ---------------------------------------
\* status: "returned", "threw" (an exception left the call), "crashed"
\* (undefined behaviour ended the process)
Outcome(book, status, trades, value) ==
    [book |-> book, status |-> status, trades |-> trades, value |-> value]

\* The contents of a Trades object that was never constructed: empty, or
\* records read from whatever the storage held.
JunkTrades == {Trade(TradeInfo(1, 1, 1), TradeInfo(2, MaxPrice, MaxQty))}
IndeterminateTrades == {<<>>} \cup {<<t>> : t \in JunkTrades}
IndeterminateBool == {"true", "false"}

(***************************************************************************)
(* src/OrderBook.cpp: class OrderBook.  Level is std::list<Order>, a       *)
(* sequence of Order records; a Handler (list iterator) is named by the id *)
(* of the Order in the node it points at.                                  *)
(***************************************************************************)
\* OrderBook::OrderBook()
\* nextId with the increment left out
nextIdNoAdd(counter) == [id |-> counter, counter |-> counter]

\* nextId: nextOrderId_.fetch_add(1, relaxed), one indivisible read-modify-write
\* of the atomic counter; gives the value read and the value stored
nextId(counter) == [id |-> counter, counter |-> counter + 1]

OrderBook ==
    [asks_ |-> EmptyMap, bids_ |-> EmptyMap, orderIdToIterator_ |-> EmptyMap,
     nextOrderId_ |-> 1]

\* Trades matchOrders() {}: no statement, no return.  The book is left as
\* it is; the Trades object the caller receives was never constructed.
matchOrders(b) ==
    {Outcome(b, "returned", t, "void") : t \in IndeterminateTrades}
    \cup {Outcome(b, "crashed", <<>>, "void")}

\* bool cancel(OrderId id) {}: no statement, no return.
cancel(b, id) ==
    {Outcome(b, "returned", <<>>, v) : v \in IndeterminateBool}
    \cup {Outcome(b, "crashed", <<>>, "void")}

\* OrderBook::add_limit
add_limit(b, side, price, qty) ==
    LET id == nextId(b.nextOrderId_).id
        order == Order(side, id, "LIMIT", price, qty)
        handle == [side |-> side, price |-> price, it |-> id]
        b1 == [b EXCEPT
                 !.nextOrderId_ = nextId(b.nextOrderId_).counter,
                 !.bids_ = IF side = "BUY"
                           THEN Put(@, price, Append(At(@, price, <<>>), order))
                           ELSE @,
                 !.asks_ = IF side = "BUY"
                           THEN @
                           ELSE Put(@, price, Append(At(@, price, <<>>), order)),
                 !.orderIdToIterator_ = Insert(@, id, handle)]
    IN matchOrders(b1)

\* The for loop of the consume lambda over one level.  kept: the orders the
\* iterator has passed (++it); rest: from the iterator to the end.
\* Yields the level, the quantity left, the index and the trades after it.
RECURSIVE forLevel(_, _, _, _, _, _, _, _)
forLevel(kept, rest, qty, index, trades, side, marketId, price) ==
    IF rest = <<>> \/ qty = 0
    THEN [level |-> kept \o rest, qty |-> qty, index |-> index,
          trades |-> trades, threw |-> FALSE]
    ELSE LET resting == Head(rest)
             exec == qmin(qty, resting.remainingQty_)
             restingId == resting.id_
             t == IF side = "BUY"
                  THEN Trade(TradeInfo(marketId, price, exec),
                             TradeInfo(restingId, price, exec))
                  ELSE Trade(TradeInfo(restingId, price, exec),
                             TradeInfo(marketId, price, exec))
             filled == fill(resting, exec)
         IN IF fillThrows(resting, exec)
            THEN [level |-> kept \o rest, qty |-> qty, index |-> index,
                  trades |-> Append(trades, t), threw |-> TRUE]
            ELSE IF isFilled(filled)
            THEN forLevel(kept, Tail(rest), qty - exec,
                          Erase(index, restingId), Append(trades, t),
                          side, marketId, price)
            ELSE forLevel(Append(kept, filled), Tail(rest), qty - exec,
                          index, Append(trades, t), side, marketId, price)

\* The while loop of the consume lambda: opp is asks_ (isAsks) or bids_.
RECURSIVE consume(_, _, _, _, _, _, _)
consume(opp, isAsks, qty, index, trades, side, marketId) ==
    IF ~(qty > 0 /\ DOMAIN opp # {})
    THEN [opp |-> opp, index |-> index, trades |-> trades, threw |-> FALSE]
    ELSE LET price == IF isAsks THEN beginAsks(opp) ELSE beginBids(opp)
             r == forLevel(<<>>, opp[price], qty, index, trades, side,
                           marketId, price)
             opp1 == IF r.level = <<>> THEN Erase(opp, price)
                     ELSE Put(opp, price, r.level)
         IN IF r.threw
            THEN [opp |-> Put(opp, price, r.level), index |-> r.index,
                  trades |-> r.trades, threw |-> TRUE]
            ELSE consume(opp1, isAsks, r.qty, r.index, r.trades, side, marketId)

\* OrderBook::add_market from `OrderId marketId = nextId()` on
add_marketFill(b, side, qty) ==
         LET marketId == nextId(b.nextOrderId_).id
             r == IF side = "BUY"
                  THEN consume(b.asks_, TRUE, qty, b.orderIdToIterator_,
                               <<>>, side, marketId)
                  ELSE consume(b.bids_, FALSE, qty, b.orderIdToIterator_,
                               <<>>, side, marketId)
             b1 == [b EXCEPT
                      !.nextOrderId_ = nextId(b.nextOrderId_).counter,
                      !.asks_ = IF side = "BUY" THEN r.opp ELSE @,
                      !.bids_ = IF side = "BUY" THEN @ ELSE r.opp,
                      !.orderIdToIterator_ = r.index]
         IN {Outcome(b1, IF r.threw THEN "threw" ELSE "returned",
                     IF r.threw THEN <<>> ELSE r.trades, "void")}

\* add_market without its `if (qty == 0) return trades;`
add_marketNoZeroCheck(b, side, qty) == add_marketFill(b, side, qty)

\* OrderBook::add_market
add_market(b, side, qty) ==
    IF qty = 0
    THEN {Outcome(b, "returned", <<>>, "void")}
    ELSE add_marketFill(b, side, qty)

(***************************************************************************)
(* src/OrderBookOptimized.cpp: OrderPool and class OrderBook.  Level is    *)
(* std::vector<std::shared_ptr<Order>>, a sequence of addresses into       *)
(* heap, the Order objects made by std::make_shared.  The names carry the  *)
(* suffix Opt where the two files use the same name.                       *)
(***************************************************************************)
\* Order::Order(): every member value-initialised
DefaultOrder ==
    [side_ |-> "BUY", id_ |-> 0, type_ |-> "LIMIT", price_ |-> 0,
     initialQty_ |-> 0, remainingQty_ |-> 0]

\* Handle{}: what orderIdToIterator_[id] holds for an id it did not hold
DefaultHandle == [side |-> "BUY", price |-> 0, it |-> "singular"]

\* OrderBook::OrderBook() and OrderPool::OrderPool().  made counts the
\* objects std::make_shared has made, at addresses 1..made; heap holds the
\* ones a setter or fill has written, the others are as Order() left them.
OrderBookOpt ==
    [asks_ |-> EmptyMap, bids_ |-> EmptyMap, orderIdToIterator_ |-> EmptyMap,
     nextOrderId_ |-> 1, pool_ |-> <<>>, made |-> 0, heap |-> EmptyMap]

\* *orderPointer
Deref(heap, p) == At(heap, p, DefaultOrder)

\* OrderPool::generateOrders: numOrders new objects, and the pointers to them
generateOrders(made, numOrders) ==
    [made |-> made + numOrders,
     pool |-> [i \in 1..numOrders |-> made + i]]

\* OrderPool::allocate: the slot at the back of pool_, which stays in pool_
allocate(b, id, side, type, qty, price) ==
    LET g == generateOrders(b.made, defaultNumOrders)
        b1 == IF b.pool_ = <<>>
              THEN [b EXCEPT !.pool_ = g.pool, !.made = g.made]
              ELSE b
        orderPointer == b1.pool_[Len(b1.pool_)]
    IN [book |-> [b1 EXCEPT !.heap = Put(@, orderPointer,
                      [side_ |-> side, id_ |-> id, type_ |-> type,
                       price_ |-> price, initialQty_ |-> qty,
                       remainingQty_ |-> qty])],
        orderPointer |-> orderPointer]

\* What *map.begin() reads as the key of an empty map
IndeterminatePrices == 0..MaxPrice

\* One pass of the while (true) loop of matchOrders, and the passes after it
RECURSIVE matchLoop(_, _)
matchLoop(b, trades) ==
    LET askKeys == IF DOMAIN b.asks_ = {} THEN IndeterminatePrices
                   ELSE {beginAsks(b.asks_)}
        bidKeys == IF DOMAIN b.bids_ = {} THEN IndeterminatePrices
                   ELSE {beginBids(b.bids_)}
        pass(bestAsk, bestBid) ==
            IF bestAsk > bestBid
            THEN {Outcome(b, "returned", trades, "void")}
            ELSE IF \/ DOMAIN b.asks_ = {} \/ DOMAIN b.bids_ = {}
                    \/ b.bids_[bestBid] = <<>> \/ b.asks_[bestAsk] = <<>>
            \* front() of a vector that is empty, or is no vector at all
            THEN {Outcome(b, "crashed", <<>>, "void")}
            ELSE LET bids == b.bids_[bestBid]
                     asks == b.asks_[bestAsk]
                     bid == Head(bids)
                     ask == Head(asks)
                     exec == qmin(Deref(b.heap, bid).remainingQty_,
                                  Deref(b.heap, ask).remainingQty_)
                     h1 == Put(b.heap, bid, fill(Deref(b.heap, bid), exec))
                     h2 == Put(h1, ask, fill(Deref(h1, ask), exec))
                     bidFilled == isFilled(h2[bid])
                     askFilled == isFilled(h2[ask])
                     bids1 == IF bidFilled THEN Tail(bids) ELSE bids
                     asks1 == IF askFilled THEN Tail(asks) ELSE asks
                     index1 == IF bidFilled
                               THEN Erase(b.orderIdToIterator_, h2[bid].id_)
                               ELSE b.orderIdToIterator_
                     \* line 227 erases bid.getOrderId() for the filled ask
                     index2 == IF askFilled THEN Erase(index1, h2[bid].id_)
                               ELSE index1
                     t == Trade(TradeInfo(h2[bid].id_, h2[bid].price_, exec),
                                TradeInfo(h2[ask].id_, h2[ask].price_, exec))
                     b1 == [b EXCEPT
                              !.heap = h2,
                              !.orderIdToIterator_ = index2,
                              !.asks_ = IF asks1 = <<>> THEN Erase(@, bestAsk)
                                        ELSE Put(@, bestAsk, asks1),
                              !.bids_ = IF bids1 = <<>> THEN Erase(@, bestBid)
                                        ELSE Put(@, bestBid, bids1)]
                 IN IF fillThrows(Deref(b.heap, bid), exec)
                       \/ fillThrows(Deref(h1, ask), exec)
                    THEN {Outcome([b EXCEPT !.heap = h1], "threw", <<>>, "void")}
                    ELSE matchLoop(b1, Append(trades, t))
    IN UNION {pass(a, c) : a \in askKeys, c \in bidKeys}

\* OrderBook::matchOrders
matchOrdersOpt(b) == matchLoop(b, <<>>)

\* OrderBook::add_limit.  `auto level = bids_[price]` copies the level: the
\* map gains the key, the push_back goes to the copy, and the iterator in
\* the handle points into the copy, which is gone when add_limit returns.
add_limitOpt(b, side, price, qty) ==
    LET id == nextId(b.nextOrderId_).id
        a == allocate(b, id, side, "LIMIT", qty, price)
        handle == [side |-> side, price |-> price, it |-> "dangling"]
        b1 == [a.book EXCEPT
                 !.nextOrderId_ = nextId(b.nextOrderId_).counter,
                 !.bids_ = IF side = "BUY" THEN Insert(@, price, <<>>) ELSE @,
                 !.asks_ = IF side = "BUY" THEN @ ELSE Insert(@, price, <<>>),
                 !.orderIdToIterator_ = Insert(@, id, handle)]
    IN matchOrdersOpt(b1)

\* OrderBook::cancel.  orderIdToIterator_[id] and bids_[price] create what
\* they do not find; erase(it) goes through an iterator that points into no
\* live vector: the level is left as it is, or the process ends.
cancelOpt(b, id) ==
    LET h == At(b.orderIdToIterator_, id, DefaultHandle)
        b1 == [b EXCEPT
                 !.bids_ = IF h.side = "BUY" THEN Insert(@, h.price, <<>>)
                           ELSE @,
                 !.asks_ = IF h.side = "BUY" THEN @
                           ELSE Insert(@, h.price, <<>>),
                 !.orderIdToIterator_ = Erase(@, id)]
    IN {Outcome(b1, "returned", <<>>, "void"),
        Outcome([b1 EXCEPT !.orderIdToIterator_ =
                     Insert(b.orderIdToIterator_, id, DefaultHandle)],
                "crashed", <<>>, "void")}

\* The for loop of the consume lambda of OrderBookOptimized.cpp: as in
\* OrderBook.cpp, but `resting` is the object the level's pointer names.
RECURSIVE forLevelOpt(_, _, _, _, _, _, _, _, _)
forLevelOpt(kept, rest, qty, index, trades, side, marketId, price, heap) ==
    IF rest = <<>> \/ qty = 0
    THEN [level |-> kept \o rest, qty |-> qty, index |-> index,
          trades |-> trades, heap |-> heap, threw |-> FALSE]
    ELSE LET it == Head(rest)
             resting == Deref(heap, it)
             exec == qmin(qty, resting.remainingQty_)
             restingId == resting.id_
             t == IF side = "BUY"
                  THEN Trade(TradeInfo(marketId, price, exec),
                             TradeInfo(restingId, price, exec))
                  ELSE Trade(TradeInfo(restingId, price, exec),
                             TradeInfo(marketId, price, exec))
             heap1 == Put(heap, it, fill(resting, exec))
         IN IF fillThrows(resting, exec)
            THEN [level |-> kept \o rest, qty |-> qty, index |-> index,
                  trades |-> Append(trades, t), heap |-> heap, threw |-> TRUE]
            ELSE IF isFilled(heap1[it])
            THEN forLevelOpt(kept, Tail(rest), qty - exec,
                             Erase(index, restingId), Append(trades, t),
                             side, marketId, price, heap1)
            ELSE forLevelOpt(Append(kept, it), Tail(rest), qty - exec,
                             index, Append(trades, t), side, marketId, price,
                             heap1)

\* The while loop of the consume lambda of OrderBookOptimized.cpp
RECURSIVE consumeOpt(_, _, _, _, _, _, _, _)
consumeOpt(opp, isAsks, qty, index, trades, side, marketId, heap) ==
    IF ~(qty > 0 /\ DOMAIN opp # {})
    THEN [opp |-> opp, index |-> index, trades |-> trades, heap |-> heap,
          threw |-> FALSE]
    ELSE LET price == IF isAsks THEN beginAsks(opp) ELSE beginBids(opp)
             r == forLevelOpt(<<>>, opp[price], qty, index, trades, side,
                              marketId, price, heap)
             opp1 == IF r.level = <<>> THEN Erase(opp, price)
                     ELSE Put(opp, price, r.level)
         IN IF r.threw
            THEN [opp |-> Put(opp, price, r.level), index |-> r.index,
                  trades |-> r.trades, heap |-> r.heap, threw |-> TRUE]
            ELSE consumeOpt(opp1, isAsks, r.qty, r.index, r.trades, side,
                            marketId, r.heap)

\* OrderBook::add_market of OrderBookOptimized.cpp from
\* `OrderId marketId = nextId()` on
add_marketFillOpt(b, side, qty) ==
         LET marketId == nextId(b.nextOrderId_).id
             r == IF side = "BUY"
                  THEN consumeOpt(b.asks_, TRUE, qty, b.orderIdToIterator_,
                                  <<>>, side, marketId, b.heap)
                  ELSE consumeOpt(b.bids_, FALSE, qty, b.orderIdToIterator_,
                                  <<>>, side, marketId, b.heap)
             b1 == [b EXCEPT
                      !.nextOrderId_ = nextId(b.nextOrderId_).counter,
                      !.asks_ = IF side = "BUY" THEN r.opp ELSE @,
                      !.bids_ = IF side = "BUY" THEN @ ELSE r.opp,
                      !.orderIdToIterator_ = r.index,
                      !.heap = r.heap]
         IN {Outcome(b1, IF r.threw THEN "threw" ELSE "returned",
                     IF r.threw THEN <<>> ELSE r.trades, "void")}

\* OrderBook::add_market of OrderBookOptimized.cpp
add_marketOpt(b, side, qty) ==
    IF qty = 0
    THEN {Outcome(b, "returned", <<>>, "void")}
    ELSE add_marketFillOpt(b, side, qty)

(***************************************************************************)
(* The state machine: a caller that makes the same call on both books.     *)
(*   plain, opt          the two OrderBook objects                         *)
(*   plainOut, optOut    how the last call on each ended and what it gave  *)
(*   plainHist, optHist  a record of the calls made so far on each book    *)
(*   call                the last call made                                *)
(*   issued              per concurrent caller of nextId, the ids it got   *)
(***************************************************************************)
VARIABLES plain, plainOut, plainHist, opt, optOut, optHist, call, issued

vars == <<plain, plainOut, plainHist, opt, optOut, optHist, call, issued>>

NoOut == [status |-> "none", trades |-> <<>>, value |-> "void"]

\* initial: the quantity each issued id was submitted with
\* traded:  per id, the sum of the quantities of the returned trades naming it
NoHist == [initial |-> EmptyMap, traded |-> EmptyMap]

\* the threads that call nextId without a lock
Callers == 1..NumCallers

NoCall == [op |-> "none", side |-> "BUY", price |-> 0, qty |-> 0, id |-> 0]

\* the quantity a trade adds to the sum of id (0 when it does not name id)
TradeQtyOf(t, id) ==
    IF t.buy_.id_ = id THEN t.buy_.qty_
    ELSE IF t.sell_.id_ = id THEN t.sell_.qty_ ELSE 0

TradeIds(t) == {t.buy_.id_, t.sell_.id_}

RECURSIVE addTraded(_, _)
addTraded(traded, trades) ==
    IF trades = <<>> THEN traded
    ELSE LET t == Head(trades)
             ids == (DOMAIN traded) \cup TradeIds(t)
         IN addTraded([i \in ids |-> At(traded, i, 0) + TradeQtyOf(t, i)],
                      Tail(trades))

\* the history after call c, made on book b, ended with outcome o
NewHist(hist, b, o, c) ==
    [initial |-> IF c.op = "add_limit" \/ (c.op = "add_market" /\ c.qty > 0)
                 THEN Put(hist.initial, b.nextOrderId_, c.qty)
                 ELSE hist.initial,
     traded |-> IF o.status = "returned" THEN addTraded(hist.traded, o.trades)
                ELSE hist.traded]

Alive(out) == out.status # "crashed"

\* one book's part of a step.  A process that crashed has no book any more:
\* `dead` stands for it.
Run(b, out, hist, outcomes, c, dead) ==
    {[book |-> IF o.status = "crashed" THEN dead ELSE o.book,
      out |-> [status |-> o.status, trades |-> o.trades, value |-> o.value],
      hist |-> NewHist(hist, b, o, c)] : o \in outcomes}

Init ==
    /\ plain = OrderBook
    /\ opt = OrderBookOpt
    /\ plainOut = NoOut
    /\ optOut = NoOut
    /\ plainHist = NoHist
    /\ optHist = NoHist
    /\ call = NoCall
    /\ issued = [t \in Callers |-> <<>>]

\* the caller stops issuing ids at MaxId
CanIssue ==
    /\ Alive(plainOut) \/ Alive(optOut)
    /\ Alive(plainOut) => plain.nextOrderId_ <= MaxId
    /\ Alive(optOut) => opt.nextOrderId_ <= MaxId

Step(c, plainOutcomes, optOutcomes) ==
    /\ call' = c
    /\ UNCHANGED issued
    /\ IF Alive(plainOut)
       THEN \E r \in Run(plain, plainOut, plainHist, plainOutcomes, c, OrderBook) :
               /\ plain' = r.book
               /\ plainOut' = r.out
               /\ plainHist' = r.hist
       ELSE UNCHANGED <<plain, plainOut, plainHist>>
    /\ IF Alive(optOut)
       THEN \E r \in Run(opt, optOut, optHist, optOutcomes, c, OrderBookOpt) :
               /\ opt' = r.book
               /\ optOut' = r.out
               /\ optHist' = r.hist
       ELSE UNCHANGED <<opt, optOut, optHist>>

AddLimit(side, price, qty) ==
    /\ CanIssue
    /\ Step([op |-> "add_limit", side |-> side, price |-> price, qty |-> qty,
             id |-> 0],
            add_limit(plain, side, price, qty),
            add_limitOpt(opt, side, price, qty))

AddMarket(side, qty) ==
    /\ CanIssue
    /\ Step([op |-> "add_market", side |-> side, price |-> 0, qty |-> qty,
             id |-> 0],
            add_market(plain, side, qty),
            add_marketOpt(opt, side, qty))

Cancel(id) ==
    /\ Alive(plainOut) \/ Alive(optOut)
    /\ Step([op |-> "cancel", side |-> "BUY", price |-> 0, qty |-> 0,
             id |-> id],
            cancel(plain, id),
            cancelOpt(opt, id))

Next ==
    \/ \E side \in Sides, price \in Prices, qty \in Qtys :
          AddLimit(side, price, qty)
    \/ \E side \in Sides, qty \in Qtys : AddMarket(side, qty)
    \/ \E id \in 1..MaxId : Cancel(id)

Spec == Init /\ [][Next]_vars

(***************************************************************************)
(* Views of a book used by the properties                                  *)
(***************************************************************************)
\* the Order objects of a level, front first (isOpt: the level holds pointers)
LevelOrders(b, level, isOpt) ==
    IF isOpt THEN [i \in DOMAIN level |-> Deref(b.heap, level[i])] ELSE level

SeqRange(q) == {q[i] : i \in DOMAIN q}

\* the orders resting on one side (a map of levels) of a book
SideOrders(b, m, isOpt) ==
    UNION {SeqRange(LevelOrders(b, m[p], isOpt)) : p \in DOMAIN m}

\* the orders resting in the ledger of a book
Resting(b, isOpt) ==
    SideOrders(b, b.bids_, isOpt) \cup SideOrders(b, b.asks_, isOpt)

RestingIds(b, isOpt) == {o.id_ : o \in Resting(b, isOpt)}

Indexed(b) == DOMAIN b.orderIdToIterator_

\* the last call on a book came back to the caller
Returned(out) == out.status = "returned"

\* every order submitted so far had qty > 0, as the interface requires of
\* submitLimit (a market call with qty = 0 issues no id)
ValidHistory(hist) == \A id \in DOMAIN hist.initial : hist.initial[id] > 0

\* the trades of a returned call that name id
Names(trades, id) == \E i \in DOMAIN trades : id \in TradeIds(trades[i])

RECURSIVE SumQty(_)
SumQty(trades) ==
    IF trades = <<>> THEN 0 ELSE Head(trades).buy_.qty_ + SumQty(Tail(trades))

RECURSIVE SumRemaining(_)
SumRemaining(orders) ==
    IF orders = <<>> THEN 0
    ELSE Head(orders).remainingQty_ + SumRemaining(Tail(orders))

\* the remaining quantity resting on one side (a map of levels) of a book
RECURSIVE TotalSide(_, _, _, _)
TotalSide(b, m, keys, isOpt) ==
    IF keys = {} THEN 0
    ELSE LET p == CHOOSE k \in keys : TRUE
         IN SumRemaining(LevelOrders(b, m[p], isOpt))
            + TotalSide(b, m, keys \ {p}, isOpt)

\* the side an incoming order of `side` trades against
Opposing(b, side) == IF side = "BUY" THEN b.asks_ ELSE b.bids_

\* the ledger and the index as a caller can compare them: per side and
\* price the orders in queue order, and per id the side and price
LedgerView(b, isOpt) ==
    [asks |-> [p \in DOMAIN b.asks_ |-> LevelOrders(b, b.asks_[p], isOpt)],
     bids |-> [p \in DOMAIN b.bids_ |-> LevelOrders(b, b.bids_[p], isOpt)]]

IndexView(b) ==
    [id \in Indexed(b) |->
        [side |-> b.orderIdToIterator_[id].side,
         price |-> b.orderIdToIterator_[id].price]]

(***************************************************************************)
(* C1  No-cross invariant: once a call has returned, if both the bid side  *)
(* and the ask side hold a price level, the best bid price is strictly     *)
(* less than the best ask price.                                           *)
(***************************************************************************)
NoCross(b) ==
    (DOMAIN b.bids_ # {} /\ DOMAIN b.asks_ # {})
        => beginBids(b.bids_) < beginAsks(b.asks_)

\* C1: the book is never crossed after an operation returns (both books);
\* stated for the call sequences whose submissions all had qty > 0
C1_NoCross ==
    /\ (Alive(plainOut) /\ ValidHistory(plainHist)) => NoCross(plain)
    /\ (Alive(optOut) /\ ValidHistory(optHist)) => NoCross(opt)

(***************************************************************************)
(* C2  Quantity conservation: in every returned trade the buy-leg quantity *)
(* equals the sell-leg quantity, and for every id the quantities of all    *)
(* the trades returned so far that name it sum to at most the quantity the *)
(* order was submitted with.                                               *)
(***************************************************************************)
LegsAgree(trades) ==
    \A i \in DOMAIN trades : trades[i].buy_.qty_ = trades[i].sell_.qty_

Conserved(out, hist) ==
    ValidHistory(hist) =>
        /\ Returned(out) => LegsAgree(out.trades)
        /\ \A id \in DOMAIN hist.initial :
              At(hist.traded, id, 0) <= hist.initial[id]

\* C2: quantity conservation over the whole history of calls (both books)
C2_QuantityConservation ==
    /\ Conserved(plainOut, plainHist)
    /\ Conserved(optOut, optHist)

(***************************************************************************)
(* C3  FIFO fairness: when A is queued before B at one price on one side   *)
(* and A has remaining quantity, a submitLimit or submitMarket that        *)
(* returns a trade naming B leaves A with no remaining quantity.           *)
(***************************************************************************)
FifoStep(b, b2, out2, isOpt) ==
    \A m \in {b.bids_, b.asks_} : \A p \in DOMAIN m :
        LET level == LevelOrders(b, m[p], isOpt)
        IN \A i \in DOMAIN level : \A j \in DOMAIN level :
              (/\ i < j
               /\ level[i].remainingQty_ > 0
               /\ Returned(out2)
               /\ Names(out2.trades, level[j].id_))
              => ~ \E o \in Resting(b2, isOpt) :
                      o.id_ = level[i].id_ /\ o.remainingQty_ > 0

\* C3: no trade names B while A, queued before it, has quantity left
C3_Fifo ==
    [][/\ (call'.op \in {"add_limit", "add_market"} /\ Alive(plainOut)
           /\ ValidHistory(plainHist'))
             => FifoStep(plain, plain', plainOut', FALSE)
       /\ (call'.op \in {"add_limit", "add_market"} /\ Alive(optOut)
           /\ ValidHistory(optHist'))
             => FifoStep(opt, opt', optOut', TRUE)]_vars

(***************************************************************************)
(* C4  Execution price: a limit order that crosses a resting order (its    *)
(* price overlaps the opposing best price, where an order with remaining   *)
(* quantity rests) returns at least one trade, and every trade it returns  *)
(* carries on both legs the price of the resting order it names.           *)
(***************************************************************************)
\* an incoming limit order of side and price crosses a resting order of b
Crosses(b, side, price, isOpt) ==
    LET m == Opposing(b, side)
        best == IF side = "BUY" THEN beginAsks(m) ELSE beginBids(m)
    IN /\ DOMAIN m # {}
       /\ IF side = "BUY" THEN price >= best ELSE price <= best
       /\ \E o \in SeqRange(LevelOrders(b, m[best], isOpt)) :
             o.remainingQty_ > 0

AtRestingPrice(b, side, trades, isOpt) ==
    /\ trades # <<>>
    /\ \A i \in DOMAIN trades :
          LET restingId == IF side = "BUY" THEN trades[i].sell_.id_
                           ELSE trades[i].buy_.id_
          IN \E o \in SideOrders(b, Opposing(b, side), isOpt) :
                /\ o.id_ = restingId
                /\ trades[i].buy_.price_ = o.price_
                /\ trades[i].sell_.price_ = o.price_

\* C4: a crossing limit order trades at the resting order's price, both legs
C4_ExecutionPrice ==
    [][/\ (/\ call'.op = "add_limit" /\ call'.qty > 0
           /\ Alive(plainOut) /\ Returned(plainOut')
           /\ ValidHistory(plainHist)
           /\ Crosses(plain, call'.side, call'.price, FALSE))
             => AtRestingPrice(plain, call'.side, plainOut'.trades, FALSE)
       /\ (/\ call'.op = "add_limit" /\ call'.qty > 0
           /\ Alive(optOut) /\ Returned(optOut')
           /\ ValidHistory(optHist)
           /\ Crosses(opt, call'.side, call'.price, TRUE))
             => AtRestingPrice(opt, call'.side, optOut'.trades, TRUE)]_vars

(***************************************************************************)
(* C5  Cancel of a resting order: when cancel(id) is called with id in the *)
(* index and returns, no order with that id is in the ledger and id is not *)
(* in the index.  (That no later trade names the id presupposes this.)     *)
(***************************************************************************)
CancelRemoves(b, b2, out2, id, isOpt) ==
    (id \in Indexed(b) /\ Returned(out2))
        => (id \notin RestingIds(b2, isOpt) /\ id \notin Indexed(b2))

\* C5: cancel of an indexed id removes it from the ledger and the index
C5_CancelResting ==
    [][/\ (call'.op = "cancel" /\ Alive(plainOut) /\ ValidHistory(plainHist))
             => CancelRemoves(plain, plain', plainOut', call'.id, FALSE)
       /\ (call'.op = "cancel" /\ Alive(optOut) /\ ValidHistory(optHist))
             => CancelRemoves(opt, opt', optOut', call'.id, TRUE)]_vars

(***************************************************************************)
(* C6  Cancel of an unknown id: cancel(id) with id not in the index, when  *)
(* it comes back, reports a failure to the caller (an exception, or false from the bool   *)
(* cancel of OrderBook.cpp) and leaves the ledger and the index as they    *)
(* were.                                                                   *)
(***************************************************************************)
ReportsFailure(out) == out.status = "threw" \/ out.value = "false"

CancelUnknownFails(b, b2, out2, id, isOpt) ==
    id \notin Indexed(b)
        => /\ ReportsFailure(out2)
           /\ LedgerView(b2, isOpt) = LedgerView(b, isOpt)
           /\ IndexView(b2) = IndexView(b)

\* C6: cancel of an id that is not indexed fails and changes nothing
C6_CancelUnknown ==
    [][/\ (call'.op = "cancel" /\ Alive(plainOut) /\ Alive(plainOut')
           /\ ValidHistory(plainHist))
             => CancelUnknownFails(plain, plain', plainOut', call'.id, FALSE)
       /\ (call'.op = "cancel" /\ Alive(optOut) /\ Alive(optOut')
           /\ ValidHistory(optHist))
             => CancelUnknownFails(opt, opt', optOut', call'.id, TRUE)]_vars

(***************************************************************************)
(* C7  Market order fill amount: submitMarket(side, qty) returns (it       *)
(* neither throws nor crashes), the quantities of the returned trades sum  *)
(* to min(qty, the remaining quantity resting on the opposing side before  *)
(* the call), and when qty exceeds that total the opposing side is empty   *)
(* afterwards and nothing of the market order rests in the book.           *)
(***************************************************************************)
MarketFill(b, b2, out2, side, qty, isOpt) ==
    LET m == Opposing(b, side)
        total == TotalSide(b, m, DOMAIN m, isOpt)
    IN /\ Returned(out2)
       /\ SumQty(out2.trades) = qmin(qty, total)
       /\ qty > total => DOMAIN Opposing(b2, side) = {}
       /\ b.nextOrderId_ \notin Indexed(b2)
       /\ b.nextOrderId_ \notin RestingIds(b2, isOpt)

\* C7: a market order fills min(qty, opposing liquidity) and never fails
C7_MarketFillAmount ==
    [][/\ (call'.op = "add_market" /\ Alive(plainOut))
             => MarketFill(plain, plain', plainOut', call'.side, call'.qty,
                           FALSE)
       /\ (call'.op = "add_market" /\ Alive(optOut))
             => MarketFill(opt, opt', optOut', call'.side, call'.qty, TRUE)]_vars

\* C7 witness: a market order came back with trades for less than its
\* quantity, the opposing side having run out
C7_Witness ==
    /\ call.op = "add_market"
    /\ Returned(plainOut)
    /\ ValidHistory(plainHist)
    /\ plainOut.trades # <<>>
    /\ SumQty(plainOut.trades) < call.qty
    /\ DOMAIN Opposing(plain, call.side) = {}

(***************************************************************************)
(* C8  submitLimit with qty = 0 is rejected: a call that comes back        *)
(* reports an error to the caller and the ledger and the index are as they *)
(* were.                                                                   *)
(***************************************************************************)
ZeroLimitRejected(b, b2, out2, isOpt) ==
    /\ out2.status = "threw"
    /\ LedgerView(b2, isOpt) = LedgerView(b, isOpt)
    /\ IndexView(b2) = IndexView(b)

\* C8: a limit order of quantity 0 is refused and nothing is inserted
C8_ZeroLimitRejected ==
    [][/\ (call'.op = "add_limit" /\ call'.qty = 0 /\ Alive(plainOut)
           /\ Alive(plainOut'))
             => ZeroLimitRejected(plain, plain', plainOut', FALSE)
       /\ (call'.op = "add_limit" /\ call'.qty = 0 /\ Alive(optOut)
           /\ Alive(optOut'))
             => ZeroLimitRejected(opt, opt', optOut', TRUE)]_vars

(***************************************************************************)
(* C9  submitMarket with qty = 0 is a no-op: it returns an empty trade     *)
(* sequence, raises no error, and leaves the book (both sides of the       *)
(* ledger, the index, the id counter) as it was.                           *)
(***************************************************************************)
ZeroMarketNoOp(b, b2, out2) ==
    /\ Returned(out2)
    /\ out2.trades = <<>>
    /\ b2 = b

\* C9: a market order of quantity 0 returns no trade and changes nothing
C9_ZeroMarketNoOp ==
    [][/\ (call'.op = "add_market" /\ call'.qty = 0 /\ Alive(plainOut))
             => ZeroMarketNoOp(plain, plain', plainOut')
       /\ (call'.op = "add_market" /\ call'.qty = 0 /\ Alive(optOut))
             => ZeroMarketNoOp(opt, opt', optOut')]_vars

\* C9 witness: a market order of quantity 0 has returned on a book that
\* holds resting orders on the side it would have consumed
C9_Witness ==
    /\ call.op = "add_market"
    /\ call.qty = 0
    /\ Returned(plainOut)
    /\ Returned(optOut)
    /\ ValidHistory(plainHist)
    /\ \E o \in SideOrders(plain, Opposing(plain, call.side), FALSE) :
          o.remainingQty_ > 0
    /\ DOMAIN Opposing(opt, call.side) # {}

(***************************************************************************)
(* C10  Pool substitutability: after the same calls, when both have        *)
(* returned, the book that takes its orders from the OrderPool has         *)
(* returned the same trades and holds the same ledger and index contents   *)
(* as the book that builds each order directly.                            *)
(***************************************************************************)
\* C10: the pooled book and the direct book are indistinguishable
C10_PoolSubstitutable ==
    (Returned(plainOut) /\ Returned(optOut) /\ ValidHistory(plainHist))
        => /\ optOut.trades = plainOut.trades
           /\ LedgerView(opt, TRUE) = LedgerView(plain, FALSE)
           /\ IndexView(opt) = IndexView(plain)

(***************************************************************************)
(* Concurrent callers of nextId.  The counter is a std::atomic and nextId  *)
(* is one fetch_add, so a call is one step whatever the other threads do;  *)
(* the calls of the threads interleave in any order.  The same calls are   *)
(* made on the counter of each book.                                       *)
(***************************************************************************)
CallNextId(t) ==
    /\ Len(issued[t]) < MaxCalls
    /\ plain' = [plain EXCEPT !.nextOrderId_ = nextId(@).counter]
    /\ opt' = [opt EXCEPT !.nextOrderId_ = nextId(@).counter]
    /\ issued' = [issued EXCEPT ![t] =
                     Append(@, [plain |-> nextId(plain.nextOrderId_).id,
                                opt |-> nextId(opt.nextOrderId_).id])]
    /\ UNCHANGED <<plainOut, plainHist, optOut, optHist, call>>

NextIds == \E t \in Callers : CallNextId(t)

IdSpec == Init /\ [][NextIds]_vars

\* the allocations made so far: caller and position in the caller's sequence
Allocations ==
    {a \in Callers \X (1..MaxCalls) : a[2] <= Len(issued[a[1]])}

(***************************************************************************)
(* C11  Order ids are unique and increasing: any two id allocations, also  *)
(* by concurrent callers without a lock, return different ids, and of two  *)
(* allocations made one after the other by one caller the later returns    *)
(* the strictly larger id.                                                 *)
(***************************************************************************)
\* C11: ids handed out by nextId are pairwise different and grow per caller
C11_UniqueIncreasingIds ==
    \A a \in Allocations : \A b \in Allocations :
        LET x == issued[a[1]][a[2]]
            y == issued[b[1]][b[2]]
        IN /\ a # b => (x.plain # y.plain /\ x.opt # y.opt)
           /\ (a[1] = b[1] /\ a[2] < b[2])
                 => (x.plain < y.plain /\ x.opt < y.opt)

\* C11 witness: every caller has made all its calls, and the calls of
\* different callers were interleaved (caller 1 got an id between two ids of
\* another caller)
C11_Witness ==
    /\ \A t \in Callers : Len(issued[t]) = MaxCalls
    /\ \E t \in Callers \ {1} :
          /\ issued[t][1].plain < issued[1][1].plain
          /\ issued[1][1].plain < issued[t][2].plain

(***************************************************************************)
(* C12  Index/ledger consistency: after every public operation returns, an *)
(* order id is in the index if and only if an order with that id and       *)
(* remaining quantity > 0 rests in the ledger.                             *)
(***************************************************************************)
LiveIds(b, isOpt) == {o.id_ : o \in {r \in Resting(b, isOpt) : r.remainingQty_ > 0}}

IndexMatchesLedger(b, isOpt) == Indexed(b) = LiveIds(b, isOpt)

\* C12: the index holds exactly the ids of the live resting orders (both books)
C12_IndexLedgerConsistent ==
    /\ (Returned(plainOut) /\ ValidHistory(plainHist))
          => IndexMatchesLedger(plain, FALSE)
    /\ (Returned(optOut) /\ ValidHistory(optHist))
          => IndexMatchesLedger(opt, TRUE)

(***************************************************************************)
(* C13  Level well-formedness: after every public operation returns, every *)
(* price level present in the ledger holds at least one order and every    *)
(* order in it has remaining quantity > 0.                                 *)
(***************************************************************************)
WellFormedLevels(b, isOpt) ==
    \A m \in {b.bids_, b.asks_} : \A p \in DOMAIN m :
        LET level == LevelOrders(b, m[p], isOpt)
        IN /\ level # <<>>
           /\ \A i \in DOMAIN level : level[i].remainingQty_ > 0

\* C13: no empty level and no exhausted order stays in the ledger (both books)
C13_LevelsWellFormed ==
    /\ (Returned(plainOut) /\ ValidHistory(plainHist))
          => WellFormedLevels(plain, FALSE)
    /\ (Returned(optOut) /\ ValidHistory(optHist))
          => WellFormedLevels(opt, TRUE)

(***************************************************************************)
(* C14  Limit remainder rests at the back: after submitLimit(side, price,  *)
(* qty) returns, the new order is in the ledger and the index if and only  *)
(* if qty minus the sum of the quantities of the returned trades is > 0,   *)
(* and then it is the last order of the queue at its price on its side,    *)
(* with remaining quantity equal to that difference.                       *)
(***************************************************************************)
\* the side an incoming order of `side` rests on
OwnSide(b, side) == IF side = "BUY" THEN b.bids_ ELSE b.asks_

LimitRests(b, b2, out2, side, price, qty, isOpt) ==
    LET id == b.nextOrderId_
        rest == qty - SumQty(out2.trades)
        m2 == OwnSide(b2, side)
        level == IF price \in DOMAIN m2
                 THEN LevelOrders(b2, m2[price], isOpt) ELSE <<>>
    IN IF rest > 0
       THEN /\ id \in Indexed(b2)
            /\ level # <<>>
            /\ level[Len(level)].id_ = id
            /\ level[Len(level)].remainingQty_ = rest
       ELSE id \notin Indexed(b2) /\ id \notin RestingIds(b2, isOpt)

\* C14: what a limit order did not trade rests last in its queue, and an
\* order that traded in full does not rest
C14_LimitRemainderRests ==
    [][/\ (/\ call'.op = "add_limit" /\ call'.qty > 0
           /\ Alive(plainOut) /\ Returned(plainOut')
           /\ ValidHistory(plainHist))
             => LimitRests(plain, plain', plainOut', call'.side, call'.price,
                           call'.qty, FALSE)
       /\ (/\ call'.op = "add_limit" /\ call'.qty > 0
           /\ Alive(optOut) /\ Returned(optOut')
           /\ ValidHistory(optHist))
             => LimitRests(opt, opt', optOut', call'.side, call'.price,
                           call'.qty, TRUE)]_vars

(***************************************************************************)
(* C15  Price priority of market orders: the trades one submitMarket call  *)
(* returns have non-decreasing prices for a buy and non-increasing prices  *)
(* for a sell, and no resting order at a worse price is filled while one   *)
(* at a better price on the opposing side has remaining quantity.          *)
(***************************************************************************)
\* the price of the resting order's leg of a trade of an order of `side`
RestingPrice(t, side) == IF side = "BUY" THEN t.sell_.price_ ELSE t.buy_.price_

\* price p is strictly better than q for an incoming order of `side`
Better(p, q, side) == IF side = "BUY" THEN p < q ELSE p > q

PricesInOrder(trades, side) ==
    \A i \in DOMAIN trades : \A j \in DOMAIN trades :
        i < j => ~ Better(RestingPrice(trades[j], side),
                          RestingPrice(trades[i], side), side)

\* Quantities never grow and prices are in order, so a better priced order
\* that had quantity left when a worse priced one was filled still has it
\* when the call returns: none is found then.
NoBetterLeft(b2, trades, side, isOpt) ==
    LET m == Opposing(b2, side)
    IN \A p \in DOMAIN m : \A i \in DOMAIN trades :
          Better(p, RestingPrice(trades[i], side), side)
              => \A o \in SeqRange(LevelOrders(b2, m[p], isOpt)) :
                    o.remainingQty_ = 0

\* C15: a market order takes the opposing levels best price first
C15_MarketPricePriority ==
    /\ (call.op = "add_market" /\ Returned(plainOut))
          => /\ PricesInOrder(plainOut.trades, call.side)
             /\ NoBetterLeft(plain, plainOut.trades, call.side, FALSE)
    /\ (call.op = "add_market" /\ Returned(optOut))
          => /\ PricesInOrder(optOut.trades, call.side)
             /\ NoBetterLeft(opt, optOut.trades, call.side, TRUE)

\* C15 witness: a market order has traded at two different prices
C15_Witness ==
    /\ call.op = "add_market"
    /\ Returned(plainOut)
    /\ ValidHistory(plainHist)
    /\ Len(plainOut.trades) >= 2
    /\ RestingPrice(plainOut.trades[1], call.side)
          # RestingPrice(plainOut.trades[2], call.side)

(***************************************************************************)
(* C16  A non-marketable limit order changes nothing else: when            *)
(* submitLimit is called while the opposing side is empty, or while its    *)
(* price does not overlap the opposing best price, the call returns an     *)
(* empty trade sequence and every order that rested before keeps its       *)
(* remaining quantity and its place in its queue.                          *)
(***************************************************************************)
NonMarketable(b, side, price) ==
    LET m == Opposing(b, side)
    IN \/ DOMAIN m = {}
       \/ IF side = "BUY" THEN price < beginAsks(m) ELSE price > beginBids(m)

\* queue q is the front of queue q2
FrontOf(q, q2) == Len(q) <= Len(q2) /\ \A i \in DOMAIN q : q2[i] = q[i]

\* every level of side view v is the front of the level of v2 at its price
SideKept(v, v2) ==
    \A p \in DOMAIN v : p \in DOMAIN v2 /\ FrontOf(v[p], v2[p])

LimitLeavesOthers(b, b2, out2, isOpt) ==
    /\ Returned(out2)
    /\ out2.trades = <<>>
    /\ SideKept(LedgerView(b, isOpt).asks, LedgerView(b2, isOpt).asks)
    /\ SideKept(LedgerView(b, isOpt).bids, LedgerView(b2, isOpt).bids)

\* C16: a limit order that cannot trade returns no trade and leaves the
\* resting orders as they were
C16_NonMarketableLimit ==
    [][/\ (/\ call'.op = "add_limit" /\ call'.qty > 0
           /\ Alive(plainOut) /\ Alive(plainOut')
           /\ ValidHistory(plainHist)
           /\ NonMarketable(plain, call'.side, call'.price))
             => LimitLeavesOthers(plain, plain', plainOut', FALSE)
       /\ (/\ call'.op = "add_limit" /\ call'.qty > 0
           /\ Alive(optOut) /\ Alive(optOut')
           /\ ValidHistory(optHist)
           /\ NonMarketable(opt, call'.side, call'.price))
             => LimitLeavesOthers(opt, opt', optOut', TRUE)]_vars

(***************************************************************************)
(* C17  The crossing procedure terminates: the loop a submitLimit call     *)
(* starts stops, when one side is empty or best bid price < best ask       *)
(* price, so every submitLimit call returns.                               *)
(***************************************************************************)
\* C17: a submitLimit call made on a running book returns to its caller
C17_LimitReturns ==
    [][/\ (call'.op = "add_limit" /\ call'.qty > 0 /\ Alive(plainOut)
           /\ ValidHistory(plainHist))
             => Returned(plainOut')
       /\ (call'.op = "add_limit" /\ call'.qty > 0 /\ Alive(optOut)
           /\ ValidHistory(optHist))
             => Returned(optOut')]_vars

(***************************************************************************)
(* C18  Overfill is unreachable: no submitLimit or submitMarket call calls *)
(* Order::fill with a quantity greater than the order's remaining          *)
(* quantity, so the overfill error is never raised, and every order keeps  *)
(* 0 <= remaining <= initial.                                              *)
(***************************************************************************)
WithinInitial(o) == 0 <= o.remainingQty_ /\ o.remainingQty_ <= o.initialQty_

\* C18: no call ends in the overfill error and no order is overfilled
C18_NoOverfill ==
    /\ plainOut.status # "threw"
    /\ optOut.status # "threw"
    /\ \A o \in Resting(plain, FALSE) : WithinInitial(o)
    /\ \A p \in DOMAIN opt.heap : WithinInitial(Deref(opt.heap, p))

\* C18 witness: a market order has filled part of a resting order
C18_Witness ==
    /\ call.op = "add_market"
    /\ Returned(plainOut)
    /\ plainOut.trades # <<>>
    /\ \E o \in Resting(plain, FALSE) :
          /\ Names(plainOut.trades, o.id_)
          /\ 0 < o.remainingQty_
          /\ o.remainingQty_ < o.initialQty_

(***************************************************************************)
(* C19  Cancel from the middle of a queue: cancel(id) of an order that is  *)
(* not at the front of its price level removes only that order; the other  *)
(* orders of the level keep their order and remaining quantities, and      *)
(* every other level and the other side are unchanged.                     *)
(***************************************************************************)
\* queue q without its i-th order
Without(q, i) == SubSeq(q, 1, i - 1) \o SubSeq(q, i + 1, Len(q))

\* side view v2 is v with the i-th order of the level at p taken out
SideWithout(v, v2, p, i) ==
    v2 = [v EXCEPT ![p] = Without(@, i)]

CancelMiddle(b, b2, out2, id, isOpt) ==
    LET v == LedgerView(b, isOpt)
        v2 == LedgerView(b2, isOpt)
    IN /\ \A p \in DOMAIN v.bids : \A i \in DOMAIN v.bids[p] :
             (i > 1 /\ v.bids[p][i].id_ = id)
                => (SideWithout(v.bids, v2.bids, p, i) /\ v2.asks = v.asks)
       /\ \A p \in DOMAIN v.asks : \A i \in DOMAIN v.asks[p] :
             (i > 1 /\ v.asks[p][i].id_ = id)
                => (SideWithout(v.asks, v2.asks, p, i) /\ v2.bids = v.bids)

\* C19: cancelling an order behind the front of its queue takes out that
\* order and nothing else
C19_CancelMiddle ==
    [][/\ (call'.op = "cancel" /\ Alive(plainOut) /\ Alive(plainOut')
           /\ ValidHistory(plainHist))
             => CancelMiddle(plain, plain', plainOut', call'.id, FALSE)
       /\ (call'.op = "cancel" /\ Alive(optOut) /\ Alive(optOut')
           /\ ValidHistory(optHist))
             => CancelMiddle(opt, opt', optOut', call'.id, TRUE)]_vars

(***************************************************************************)
(* C20  Pool slots are not shared between live orders: OrderPool::allocate *)
(* never returns a slot that an order resting in the book still holds, so  *)
(* allocating a new order never changes the id, side, price or remaining   *)
(* quantity of an order already resting.                                   *)
(***************************************************************************)
\* the ids of the orders the book holds as resting: in a level or indexed
HeldIds(b) == RestingIds(b, TRUE) \cup Indexed(b)

\* the slots whose order object carries id
SlotsOf(b, id) == {p \in DOMAIN b.heap : b.heap[p].id_ = id}

PoolKeepsResting(b, b2) ==
    \A id \in HeldIds(b) : \A p \in SlotsOf(b, id) :
        LET o == Deref(b.heap, p)
            o2 == Deref(b2.heap, p)
        IN /\ o2.id_ = o.id_
           /\ o2.side_ = o.side_
           /\ o2.price_ = o.price_
           /\ o2.remainingQty_ = o.remainingQty_

\* C20: a submitLimit call, which allocates a slot for its order, leaves
\* the slot of every order that rests in the book as it was
C20_PoolSlotsNotShared ==
    [][(/\ call'.op = "add_limit" /\ call'.qty > 0
        /\ Alive(optOut) /\ Alive(optOut')
        /\ ValidHistory(optHist))
          => PoolKeepsResting(opt, opt')]_vars

====
